---- MODULE Spec2Model ----
\* Batched concurrent pagination-and-merge of src/stackoverflow.py:
\* StackExchangeClient.fetch_top_n_unanswered_questions_async and
\* StackOverflowController.get_top_n_unanswered_questions_async.
EXTENDS Integers, Sequences, FiniteSets, TLC

\* ---------------------------------------------------------------- bounds
\* Scheduling inputs: many pages, one item per page.
MaxPages == 4
MaxBatch == 3
\* Data inputs: few pages, every placement of up to MaxItems items.
MaxDataPages == 3
MaxItems == 3
MaxN == 2
\* Inputs of the merge studied on its own: lists of up to MaxMergeLen questions.
MaxMergeLen == 4
\* Runs with batch_size < 1: remaining_page_count is followed up to MaxRemaining.
MaxRemaining == 6

\* page_size default of fetch_top_n_unanswered_questions_async
PageSize == 100

\* Values of the remote's "view_count" and "answer_count" fields.
ViewCounts == {10, 50}
AnswerCounts == {0, 1}
\* batch_size values tried together with the data inputs.
DataBatchSizes == {1, 2}

PageLimit == IF MaxPages > MaxDataPages THEN MaxPages ELSE MaxDataPages
PageIds == 1..PageLimit

VARIABLES
    pages,                 \* remote: page number -> "items" of the response body
    total,                 \* remote: "total" of the response body of page 1
    reported_total,        \* remote: page number -> "total" of its response body
    batch_size,            \* parameter batch_size
    n,                     \* parameter n
    pc,                    \* position of get_top_n_unanswered_questions_async
    session,               \* the ClientSession of the async with block
    page_number,           \* local page_number
    remaining_page_count,  \* local remaining_page_count
    top_n_questions,       \* local top_n_questions
    coroutine_result,      \* gather's results not yet folded, in page order
    fetch,                 \* page number -> state of its fetch coroutine
    error,                 \* page whose exception reached the scheduler, 0 if none
    result,                \* value returned to the caller
    resolved,              \* history: pages in the order their fetches resolved
    groups,                \* history: the sets of pages launched by the drain loop
    merged,                \* history: pages whose results were put into top_n_questions
    reordered,             \* history: a fetch resolved before a lower page of its group
    call,                  \* a function studied on its own: its arguments
    ret                    \* a function studied on its own: what its calls gave

vars == <<pages, total, reported_total, batch_size, n, pc, session, page_number,
          remaining_page_count, top_n_questions, coroutine_result, fetch,
          error, result, resolved, groups, merged, reordered, call, ret>>

\* ------------------------------------------------------- pure functions
Min(a, b) == IF a < b THEN a ELSE b
Max(a, b) == IF a > b THEN a ELSE b

\* Python's a % b for b # 0 (the result has the sign of b)
PyMod(a, b) == IF b > 0 THEN a % b ELSE -((-a) % (-b))

\* math.ceil(a / b) for a >= 0, b > 0
Ceil(a, b) == (a + b - 1) \div b

\* s[:k + 1] in place of s[:k]
SliceOneMore(s, k) == SubSeq(s, 1, Min(k + 1, Len(s)))

\* Python's s[:k]
Slice(s, k) ==
    IF k >= 0 THEN SubSeq(s, 1, Min(k, Len(s)))
    ELSE SubSeq(s, 1, Max(0, Len(s) + k))

\* question.pop("answer_count", 0): the value, and the question left behind
PopAnswerCount(question) ==
    IF "answer_count" \in DOMAIN question THEN question.answer_count ELSE 0
WithoutAnswerCount(question) ==
    [f \in DOMAIN question \ {"answer_count"} |-> question[f]]

\* "> 1" in place of "> 0"
is_answered_above_one(question) == PopAnswerCount(question) > 1

is_answered(question) == PopAnswerCount(question) > 0

RECURSIVE remove_answered_questions(_)
remove_answered_questions(questions) ==
    IF questions = <<>> THEN <<>>
    ELSE LET rest == remove_answered_questions(Tail(questions))
         IN  IF is_answered(Head(questions)) THEN rest
             ELSE <<WithoutAnswerCount(Head(questions))>> \o rest

\* reverse=True dropped: q goes behind every element with key <= its own
InsertAscending(sorted, q) ==
    LET k == Cardinality({i \in 1..Len(sorted) : sorted[i].view_count <= q.view_count})
    IN  SubSeq(sorted, 1, k) \o <<q>> \o SubSeq(sorted, k + 1, Len(sorted))

\* sorted(questions, key=view_count)[::-1]: equal keys come out in reverse
InsertBeforeTies(sorted, q) ==
    LET k == Cardinality({i \in 1..Len(sorted) : sorted[i].view_count > q.view_count})
    IN  SubSeq(sorted, 1, k) \o <<q>> \o SubSeq(sorted, k + 1, Len(sorted))

\* no sort at all: q stays where the concatenation put it
InsertLast(sorted, q) == Append(sorted, q)

\* sorted(questions, key=view_count, reverse=True): stable, equal keys keep
\* their order.  One insertion: q goes behind every element with key >= its own.
InsertByViewCount(sorted, q) ==
    LET k == Cardinality({i \in 1..Len(sorted) : sorted[i].view_count >= q.view_count})
    IN  SubSeq(sorted, 1, k) \o <<q>> \o SubSeq(sorted, k + 1, Len(sorted))

RECURSIVE SortedByViewCount(_)
SortedByViewCount(questions) ==
    IF questions = <<>> THEN <<>>
    ELSE InsertByViewCount(
             SortedByViewCount(SubSeq(questions, 1, Len(questions) - 1)),
             questions[Len(questions)])

get_top_n_questions_by_view_count(questions, k) ==
    Slice(SortedByViewCount(questions), k)

\* questions.sort(...): the list passed is left sorted
ArgumentSortedInPlace(questions) == SortedByViewCount(questions)

\* the list passed to get_top_n_questions_by_view_count, after the call:
\* sorted() and the slice build new lists
ArgumentAfterCall(questions) == questions

\* the page's questions cut to n - 1 instead of n
FetchReturnCutShort(p) ==
    [top_n |-> get_top_n_questions_by_view_count(
                   remove_answered_questions(pages[p]), Max(0, n - 1)),
     remaining_page_count |-> Ceil(reported_total[p], PageSize) - p]

\* What a successful fetch of page p returns: (top_n_questions, remaining_page_count)
FetchReturn(p) ==
    LET questions == pages[p]
        unanswered_questions == remove_answered_questions(questions)
        total_page_count == Ceil(reported_total[p], PageSize)
    IN  [top_n |-> get_top_n_questions_by_view_count(unanswered_questions, n),
         remaining_page_count |-> total_page_count - p]

\* every remaining page at once
current_page_count_all(remaining, batch) == remaining

\* "or batch_size" dropped: remaining_page_count % batch_size
current_page_count_mod_only(remaining, batch) == PyMod(remaining, batch)

\* full groups first: min(batch_size, remaining_page_count)
current_page_count_front(remaining, batch) == Min(batch, remaining)

\* remaining_page_count % batch_size or batch_size
current_page_count(remaining, batch) ==
    IF PyMod(remaining, batch) # 0 THEN PyMod(remaining, batch) ELSE batch

\* results in the order of completion (as asyncio.as_completed yields them)
GatherResultAsCompleted(first, last) ==
    [i \in 1..(last - first + 1) |->
        FetchReturn(resolved[Len(resolved) - (last - first + 1) + i])]

\* asyncio.gather(*coroutines): results in the order of the awaitables
GatherResult(first, last) ==
    [i \in 1..(last - first + 1) |-> FetchReturn(first + i - 1)]

\* gather(return_exceptions=True): exceptions count as results
GatherDoneWithExceptions(group) == \A p \in group : fetch[p] \in {"ok", "failed"}

\* asyncio.wait(return_when=FIRST_COMPLETED): one result is enough
GatherDoneFirstCompleted(group) == \E p \in group : fetch[p] = "ok"

\* asyncio.gather returns once every awaitable has a result
GatherDone(group) == \A p \in group : fetch[p] = "ok"

\* ------------------------------------------------------------- the remote
TotalCounts(maxPages) == {0, 3, PageSize} \cup {PageSize * p + 50 : p \in 1..(maxPages - 1)}

Question(p, i, v, a) == [id |-> <<p, i>>, view_count |-> v, answer_count |-> a]

\* Page p of a remote that holds `kinds[j]` at page `at[j]`, j in remote order.
PageOf(p, kinds, at) ==
    LET js == {j \in DOMAIN at : at[j] = p}
        first == Cardinality({j \in DOMAIN at : at[j] < p})
    IN  [i \in 1..Cardinality(js) |->
            Question(p, i, kinds[first + i][1], kinds[first + i][2])]

\* page p can hold at most the items the remote still has for it
Available(t, p) == Max(0, Min(PageSize, t - PageSize * (p - 1)))

\* few pages, every placement of up to MaxItems questions
DataInputs ==
    \E t \in TotalCounts(MaxDataPages), k \in 0..MaxItems :
    \E kinds \in [1..k -> ViewCounts \X AnswerCounts],
       at \in [1..k -> 1..Max(1, Ceil(t, PageSize))] :
        /\ \A j \in 1..(k - 1) : at[j] <= at[j + 1]
        /\ \A p \in PageIds : Cardinality({j \in 1..k : at[j] = p}) <= Available(t, p)
        /\ total = t
        /\ pages = [p \in PageIds |-> PageOf(p, kinds, at)]
        /\ batch_size \in DataBatchSizes
        /\ n \in 0..MaxN

\* many pages, each holding one unanswered question of the same view count
SchedulingInputs ==
    \E t \in TotalCounts(MaxPages) :
        /\ total = t
        /\ pages = [p \in PageIds |->
                      IF p <= Ceil(t, PageSize)
                      THEN <<Question(p, 1, 10, 0)>> ELSE <<>>]
        /\ batch_size \in 1..MaxBatch
        /\ n = 1

\* every page reports the total that page 1 reports
StableTotal == reported_total = [p \in PageIds |-> total]

\* no function is studied on its own
NoCall == call = "none" /\ ret = "none"

\* the locals of get_top_n_unanswered_questions_async when it is entered
Entry ==
    /\ pc = "start"
    /\ session = "none"
    /\ page_number = 0
    /\ remaining_page_count = 0
    /\ top_n_questions = <<>>
    /\ coroutine_result = <<>>
    /\ fetch = [p \in PageIds |-> "none"]
    /\ error = 0
    /\ result = "none"
    /\ resolved = <<>>
    /\ groups = <<>>
    /\ merged = {}
    /\ reordered = FALSE

Init ==
    /\ DataInputs \/ SchedulingInputs
    /\ StableTotal
    /\ NoCall
    /\ Entry

inputs == <<pages, total, reported_total, batch_size, n, call, ret>>

Outstanding == {p \in PageIds : fetch[p] = "pending"}
LastGroup == IF groups = <<>> THEN {1} ELSE groups[Len(groups)]

\* ------------------------------------------------------------- actions
\* line 102: async with ClientSession() as session
OpenSession ==
    /\ pc = "start"
    /\ session' = "open"
    /\ pc' = "entered"
    /\ UNCHANGED <<inputs, page_number, remaining_page_count, top_n_questions,
                   coroutine_result, fetch, error, result, resolved, groups,
                   merged, reordered>>

\* lines 103-109 up to the await: page 1 is requested
RequestFirstPage ==
    /\ pc = "entered"
    /\ page_number' = 1
    /\ fetch' = [fetch EXCEPT ![1] = "pending"]
    /\ pc' = "fetch_first"
    /\ UNCHANGED <<inputs, session, remaining_page_count, top_n_questions,
                   coroutine_result, error, result, resolved, groups, merged,
                   reordered>>

\* the exception of the lowest failed page is the one handed on
FetchResolvesLowestPage(p, ok) ==
    /\ fetch[p] = "pending"
    /\ fetch' = [fetch EXCEPT ![p] = IF ok THEN "ok" ELSE "failed"]
    /\ error' = IF ok THEN error ELSE IF error = 0 THEN p ELSE Min(error, p)
    /\ resolved' = Append(resolved, p)
    /\ reordered' = (reordered \/ \E q \in {r \in PageIds : fetch[r] = "pending"} : q < p)
    /\ UNCHANGED <<pages, total, reported_total, batch_size, n, call, ret, pc,
                   session, page_number, remaining_page_count, top_n_questions,
                   coroutine_result, result, groups, merged>>

\* lines 50-71: a pending fetch resolves, with its results or with an exception
\* (lines 53-58, or an error of the transport).  gather hands the first
\* exception of its awaitables to the scheduler.
FetchResolves(p, ok) ==
    /\ fetch[p] = "pending"
    /\ fetch' = [fetch EXCEPT ![p] = IF ok THEN "ok" ELSE "failed"]
    /\ error' = IF ~ok /\ error = 0 THEN p ELSE error
    /\ resolved' = Append(resolved, p)
    /\ reordered' = (reordered \/ \E q \in Outstanding : q < p)
    /\ UNCHANGED <<inputs, pc, session, page_number, remaining_page_count,
                   top_n_questions, coroutine_result, result, groups, merged>>

FetchSucceeds == \E p \in PageIds : FetchResolves(p, TRUE)
FetchFails == \E p \in PageIds : FetchResolves(p, FALSE)

\* lines 104-109: the await of page 1 returns
FirstPageReturns ==
    /\ pc = "fetch_first"
    /\ fetch[1] = "ok"
    /\ top_n_questions' = FetchReturn(1).top_n
    /\ remaining_page_count' = FetchReturn(1).remaining_page_count
    /\ merged' = merged \cup {1}
    /\ pc' = "drain"
    /\ UNCHANGED <<inputs, session, page_number, coroutine_result, fetch, error,
                   result, resolved, groups, reordered>>

\* page_number incremented after the request instead of before it
LaunchGroupFromCurrentPage ==
    /\ pc = "drain"
    /\ remaining_page_count > 0
    /\ LET width == current_page_count(remaining_page_count, batch_size)
           group == page_number..(page_number + width - 1)
       IN  /\ group \subseteq PageIds
           /\ remaining_page_count' = remaining_page_count - width
           /\ page_number' = page_number + Max(0, width)
           /\ fetch' = [p \in PageIds |-> IF p \in group THEN "pending" ELSE fetch[p]]
           /\ groups' = Append(groups, group)
    /\ pc' = "await_group"
    /\ UNCHANGED <<pages, total, reported_total, batch_size, n, call, ret,
                   session, top_n_questions, coroutine_result, error, result,
                   resolved, merged, reordered>>

\* lines 110-120 up to the await: one group of fetches is launched
LaunchGroup ==
    /\ pc = "drain"
    /\ remaining_page_count > 0
    /\ LET width == current_page_count(remaining_page_count, batch_size)
           group == (page_number + 1)..(page_number + width)
       IN  /\ group \subseteq PageIds
           /\ remaining_page_count' = remaining_page_count - width
           /\ page_number' = page_number + Max(0, width)
           /\ fetch' = [p \in PageIds |-> IF p \in group THEN "pending" ELSE fetch[p]]
           /\ groups' = Append(groups, group)
    /\ pc' = "await_group"
    /\ UNCHANGED <<inputs, session, top_n_questions, coroutine_result, error,
                   result, resolved, merged, reordered>>

\* line 120: gather returns the group's results
GatherReturns ==
    /\ pc = "await_group"
    /\ GatherDone(LastGroup)
    /\ coroutine_result' = GatherResult(page_number - Cardinality(LastGroup) + 1, page_number)
    /\ pc' = IF LastGroup = {} THEN "drain" ELSE "fold"
    /\ UNCHANGED <<inputs, session, page_number, remaining_page_count,
                   top_n_questions, fetch, error, result, resolved, groups,
                   merged, reordered>>

\* "for top_n, remaining_page_count in coroutine_result": the count is taken over
FoldPageTakesRemaining ==
    /\ pc = "fold"
    /\ coroutine_result # <<>>
    /\ top_n_questions' = get_top_n_questions_by_view_count(
                              top_n_questions \o Head(coroutine_result).top_n, n)
    /\ remaining_page_count' = Head(coroutine_result).remaining_page_count
    /\ merged' = merged \cup {page_number - Len(coroutine_result) + 1}
    /\ coroutine_result' = Tail(coroutine_result)
    /\ pc' = IF Tail(coroutine_result) = <<>> THEN "drain" ELSE "fold"
    /\ UNCHANGED <<pages, total, reported_total, batch_size, n, call, ret,
                   session, page_number, fetch, error, result, resolved, groups,
                   reordered>>

\* top_n + top_n_questions: the page's questions put in front of the running list
FoldPageIncomingFirst ==
    /\ pc = "fold"
    /\ coroutine_result # <<>>
    /\ top_n_questions' = get_top_n_questions_by_view_count(
                              Head(coroutine_result).top_n \o top_n_questions, n)
    /\ merged' = merged \cup {page_number - Len(coroutine_result) + 1}
    /\ coroutine_result' = Tail(coroutine_result)
    /\ pc' = IF Tail(coroutine_result) = <<>> THEN "drain" ELSE "fold"
    /\ UNCHANGED <<pages, total, reported_total, batch_size, n, call, ret,
                   session, page_number, remaining_page_count, fetch, error,
                   result, resolved, groups, reordered>>

\* lines 121-125: one iteration of the fold loop
FoldPage ==
    /\ pc = "fold"
    /\ coroutine_result # <<>>
    /\ top_n_questions' = get_top_n_questions_by_view_count(
                              top_n_questions \o Head(coroutine_result).top_n, n)
    /\ merged' = merged \cup {page_number - Len(coroutine_result) + 1}
    /\ coroutine_result' = Tail(coroutine_result)
    /\ pc' = IF Tail(coroutine_result) = <<>> THEN "drain" ELSE "fold"
    /\ UNCHANGED <<inputs, session, page_number, remaining_page_count, fetch,
                   error, result, resolved, groups, reordered>>

\* line 126 and the exit of the async with block
ReturnTopN ==
    /\ pc = "drain"
    /\ remaining_page_count <= 0
    /\ result' = top_n_questions
    /\ session' = "closed"
    /\ pc' = "done"
    /\ UNCHANGED <<inputs, page_number, remaining_page_count, top_n_questions,
                   coroutine_result, fetch, error, resolved, groups, merged,
                   reordered>>

\* the session closed only on the path that returns
RaiseSessionLeft ==
    /\ pc \in {"fetch_first", "await_group"}
    /\ error # 0
    /\ pc' = "failed"
    /\ UNCHANGED <<pages, total, reported_total, batch_size, n, call, ret,
                   session, page_number,
                   remaining_page_count, top_n_questions, coroutine_result,
                   fetch, error, result, resolved, groups, merged, reordered>>

\* lines 107 and 120: the awaited fetch or gather raises; the exception leaves
\* the async with block, which closes the session
Raise ==
    /\ pc \in {"fetch_first", "await_group"}
    /\ error # 0
    /\ session' = "closed"
    /\ pc' = "failed"
    /\ UNCHANGED <<inputs, page_number, remaining_page_count, top_n_questions,
                   coroutine_result, fetch, error, result, resolved, groups,
                   merged, reordered>>

Next ==
    \/ OpenSession
    \/ RequestFirstPage
    \/ FetchSucceeds
    \/ FetchFails
    \/ FirstPageReturns
    \/ LaunchGroup
    \/ GatherReturns
    \/ FoldPage
    \/ ReturnTopN
    \/ Raise

Spec == Init /\ [][Next]_vars

\* The event loop runs the scheduler whenever it can go on, and every fetch
\* that was issued resolves in the end.
SchedulerStep ==
    \/ OpenSession \/ RequestFirstPage \/ FirstPageReturns \/ LaunchGroup
    \/ GatherReturns \/ FoldPage \/ ReturnTopN \/ Raise

LiveInit ==
    /\ SchedulingInputs
    /\ StableTotal
    /\ NoCall
    /\ Entry

LiveSpec ==
    /\ LiveInit
    /\ [][Next]_vars
    /\ WF_vars(SchedulerStep)
    /\ \A p \in PageIds : WF_vars(FetchResolves(p, TRUE) \/ FetchResolves(p, FALSE))

\* ------------------------------------------ a total that changes under way
\* The pages above 1 may report another "total" than page 1 did.
UnstableInit ==
    /\ SchedulingInputs
    /\ reported_total \in [PageIds -> {0, total, total + PageSize}]
    /\ reported_total[1] = total
    /\ NoCall
    /\ Entry

UnstableSpec == UnstableInit /\ [][Next]_vars

\* ------------------------------------------ every integer batch_size
\* batch_size is not validated (lines 94-101): zero and negative values reach
\* line 111.
AnyBatchInputs ==
    \E t \in TotalCounts(MaxPages) :
        /\ total = t
        /\ pages = [p \in PageIds |->
                      IF p <= Ceil(t, PageSize)
                      THEN <<Question(p, 1, 10, 0)>> ELSE <<>>]
        /\ batch_size \in (0 - MaxBatch)..MaxBatch
        /\ n = 1

AnyBatchInit ==
    /\ AnyBatchInputs
    /\ StableTotal
    /\ NoCall
    /\ Entry

\* lines 110-120 for batch_size # 0; a negative batch_size gives a negative
\* current_page_count, range() of it is empty and gather() of nothing returns []
LaunchGroupAnyBatch ==
    /\ batch_size # 0
    /\ remaining_page_count <= MaxRemaining
    /\ LaunchGroup

\* line 111 for batch_size = 0: remaining_page_count % 0 raises
\* ZeroDivisionError, which leaves the async with block
DivisionByZero ==
    /\ pc = "drain"
    /\ remaining_page_count > 0
    /\ batch_size = 0
    /\ session' = "closed"
    /\ pc' = "failed"
    /\ UNCHANGED <<inputs, page_number, remaining_page_count, top_n_questions,
                   coroutine_result, fetch, error, result, resolved, groups,
                   merged, reordered>>

AnyBatchNext ==
    \/ OpenSession
    \/ RequestFirstPage
    \/ FetchSucceeds
    \/ FetchFails
    \/ FirstPageReturns
    \/ LaunchGroupAnyBatch
    \/ DivisionByZero
    \/ GatherReturns
    \/ FoldPage
    \/ ReturnTopN
    \/ Raise

AnyBatchSpec == AnyBatchInit /\ [][AnyBatchNext]_vars

TypeOK ==
    /\ pc \in {"start", "entered", "fetch_first", "drain", "await_group", "fold",
               "done", "failed"}
    /\ session \in {"none", "open", "closed"}
    /\ fetch \in [PageIds -> {"none", "pending", "ok", "failed"}]
    /\ error \in 0..PageLimit

\* ------------------------------------------- the merge, studied on its own
\* call = [S, G1, G2, n, questions]: three lists, n, and the list last passed to
\* get_top_n_questions_by_view_count as the call left it.  ret collects
\* merge(S, G1, n), merge(merge(S, G1, n), G2, n) and merge(S, G1 ++ G2, n),
\* where merge is get_top_n_questions_by_view_count of the concatenation.
Listed(views, from, to) ==
    [i \in 1..(to - from) |-> [id |-> from + i, view_count |-> views[from + i]]]

NoRun ==
    /\ total = 0
    /\ pages = [p \in PageIds |-> <<>>]
    /\ StableTotal
    /\ batch_size = 1
    /\ n = 0
    /\ Entry

MergeInit ==
    /\ \E m \in 0..MaxMergeLen, k \in 0..MaxMergeLen :
       \E views \in [1..m -> ViewCounts], a \in 0..m, b \in 0..m :
          /\ a <= b
          /\ call = [S |-> Listed(views, 0, a), G1 |-> Listed(views, a, b),
                     G2 |-> Listed(views, b, m), n |-> k, questions |-> <<>>]
    /\ ret = <<>>
    /\ NoRun

Merged(questions) ==
    /\ ret' = Append(ret, get_top_n_questions_by_view_count(questions, call.n))
    /\ call' = [call EXCEPT !.questions = ArgumentAfterCall(questions)]
    /\ UNCHANGED <<pages, total, reported_total, batch_size, n, pc, session,
                   page_number, remaining_page_count, top_n_questions,
                   coroutine_result, fetch, error, result, resolved, groups,
                   merged, reordered>>

MergeFirst == Len(ret) = 0 /\ Merged(call.S \o call.G1)
MergeSecond == Len(ret) = 1 /\ Merged(ret[1] \o call.G2)
MergeWhole == Len(ret) = 2 /\ Merged(call.S \o call.G1 \o call.G2)

MergeNext == MergeFirst \/ MergeSecond \/ MergeWhole

MergeSpec == MergeInit /\ [][MergeNext]_vars

\* ------------------------------------- one page fetch, studied on its own
\* error_id default of fetch_top_n_unanswered_questions_async
DefaultErrorCode == 500
DefaultErrorMessage == "Something went wrong."

\* dict.get(key, default)
Get(dict, key, default) == IF key \in DOMAIN dict THEN dict[key] ELSE default

\* lines 50-71 for one response.  response.decodes: the body is a JSON
\* object, so that response.json() returns a dict; otherwise response.json()
\* raises (wrong content type, or text that is no JSON).
fetch_top_n_unanswered_questions(page, response, k) ==
    IF ~response.decodes
    THEN [kind |-> "raise", exception |-> "response.json"]
    ELSE LET response_body == response.body IN
         IF ~response.ok
         THEN [kind |-> "raise", exception |-> "Exception",
               page_number |-> page,
               error_message |-> Get(response_body, "error_message", DefaultErrorMessage),
               error_code |-> Get(response_body, "error_id", DefaultErrorCode)]
         ELSE LET questions == Get(response_body, "items", <<>>)
                  unanswered_questions == remove_answered_questions(questions)
                  total_question_count == Get(response_body, "total", 0)
                  total_page_count == Ceil(total_question_count, PageSize)
              IN  [kind |-> "return",
                   top_n |-> get_top_n_questions_by_view_count(unanswered_questions, k),
                   remaining_page_count |-> total_page_count - page]

\* bodies that are JSON objects: each field present or not
Field(key, values) == {<<>>} \cup {key :> v : v \in values}

ResponseBodies ==
    {m @@ c @@ i @@ tt :
        m \in Field("error_message", {"too many requests"}),
        c \in Field("error_id", {502}),
        i \in Field("items", {<<>>, <<Question(1, 1, 10, 0)>>,
                              <<Question(1, 1, 10, 1), Question(1, 2, 50, 0)>>}),
        tt \in Field("total", {150})}

Responses ==
    [ok : BOOLEAN, decodes : {TRUE}, body : ResponseBodies]
        \cup [ok : BOOLEAN, decodes : {FALSE}, body : {"<html>"}]

FetchInit ==
    /\ call \in [page_number : 1..MaxPages, n : 0..MaxN, response : Responses]
    /\ ret = <<>>
    /\ NoRun

FetchCalled ==
    /\ ret = <<>>
    /\ ret' = <<fetch_top_n_unanswered_questions(call.page_number, call.response, call.n)>>
    /\ UNCHANGED <<pages, total, reported_total, batch_size, n, pc, session,
                   page_number, remaining_page_count, top_n_questions,
                   coroutine_result, fetch, error, result, resolved, groups,
                   merged, reordered, call>>

FetchNext == FetchCalled

FetchSpec == FetchInit /\ [][FetchNext]_vars

\* ------------------------------------------------------------ properties
TotalPages == Ceil(total, PageSize)
Terminated == pc \in {"done", "failed"}

\* the remote's record of the question a result item came from
Original(q) == pages[q.id[1]][q.id[2]]

\* ids of the questions of pages 1..TotalPages that have no answer
Passing ==
    UNION {{<<p, i>> : i \in {j \in DOMAIN pages[p] : pages[p][j].answer_count = 0}} :
              p \in 1..TotalPages}

ViewOf(id) == pages[id[1]][id[2]].view_count

\* a precedes b in "descending by view count", ties in remote order
Precedes(a, b) ==
    \/ ViewOf(a) > ViewOf(b)
    \/ /\ ViewOf(a) = ViewOf(b)
       /\ (a[1] < b[1] \/ (a[1] = b[1] /\ a[2] < b[2]))

RankOf(a) == Cardinality({b \in Passing : Precedes(b, a)})

\* the unanswered questions of all pages, descending by view count, first n
Reference ==
    [r \in 1..Min(n, Cardinality(Passing)) |->
        LET a == CHOOSE a \in Passing : RankOf(a) = r - 1
        IN  [id |-> a, view_count |-> ViewOf(a)]]

\* C1: every successful run returns the reference result: the questions of
\* pages 1..totalPages with answer count 0, sorted descending by view count,
\* cut to the first N.
C1_ResultIsReference == pc = "done" => result = Reference

\* a run where filter, sort across pages and cut all decide the result
C1_Witness ==
    /\ pc = "done"
    /\ Len(result) = 1
    /\ Cardinality(Passing) = 2
    /\ \E a \in Passing : a[1] < result[1].id[1] /\ ViewOf(a) < result[1].view_count
    /\ \E p \in PageIds : \E i \in DOMAIN pages[p] :
          /\ pages[p][i].answer_count > 0
          /\ pages[p][i].view_count >= result[1].view_count

\* C2: the page fetches issued and not yet resolved never number more than
\* the batch width, and number exactly 1 while page 1 is being fetched.
C2_OutstandingBounded ==
    /\ Cardinality(Outstanding) <= batch_size
    /\ (pc = "fetch_first" /\ fetch[1] = "pending") => Cardinality(Outstanding) = 1

\* a full group in flight, after a shorter one
C2_Witness ==
    /\ pc = "await_group"
    /\ batch_size >= 2
    /\ Cardinality(Outstanding) = batch_size
    /\ Len(groups) >= 2

Unanswered(questions) ==
    \A i \in DOMAIN questions :
        /\ ~(Original(questions[i]).answer_count > 0)
        /\ "answer_count" \notin DOMAIN questions[i]

\* C4: no question that had answers is in top_n_questions or in the result, and
\* no question there still carries the answer_count field.
C4_OnlyUnanswered ==
    /\ Unanswered(top_n_questions)
    /\ result # "none" => Unanswered(result)

\* an answered question that would have ranked first is left out
C4_Witness ==
    /\ pc = "done"
    /\ result # <<>>
    /\ Len(result) < n
    /\ \E p \in PageIds : \E i \in DOMAIN pages[p] :
          /\ pages[p][i].answer_count > 0
          /\ pages[p][i].view_count > result[1].view_count

\* C5: top_n_questions never holds more than N questions, and the result of a
\* successful run holds min(N, number of unanswered questions of all pages).
C5_TopNBound ==
    /\ Len(top_n_questions) <= n
    /\ pc = "done" => Len(result) = Min(n, Cardinality(Passing))

\* fewer than N questions pass: a shorter result, returned without error
C5_Witness ==
    /\ pc = "done"
    /\ error = 0
    /\ Len(result) > 0
    /\ Len(result) < n
    /\ Cardinality(merged) > 1

Descending(questions) ==
    \A i \in 1..(Len(questions) - 1) :
        questions[i].view_count >= questions[i + 1].view_count

\* C6: top_n_questions, and so the result, is in non-increasing order of view
\* count after page 1 and after every fold.
C6_Descending ==
    /\ Descending(top_n_questions)
    /\ result # "none" => Descending(result)

\* a later page's question was sorted in front of an earlier page's
C6_Witness ==
    /\ pc = "done"
    /\ Len(result) >= 2
    /\ result[1].view_count > result[2].view_count
    /\ result[1].id[1] > result[2].id[1]

SomeFetchFailed == \E p \in PageIds : fetch[p] = "failed"

\* C3: a failed page fetch makes the retrieval fail: no result is returned, no
\* page of the failed group is merged, and top_n_questions is never changed
\* once the failure has reached the scheduler, whatever the sibling fetches do.
C3_FailFast ==
    /\ [](SomeFetchFailed => /\ error # 0
                            /\ pc \in {"fetch_first", "await_group", "failed"}
                            /\ result = "none"
                            /\ LastGroup \cap merged = {}
                            /\ (pc = "failed" \/ ENABLED Raise))
    /\ [](pc = "failed" => SomeFetchFailed)
    /\ [][error # 0 => /\ top_n_questions' = top_n_questions
                       /\ merged' = merged
                       /\ result' = result
                       /\ pc' \in {pc, "failed"}]_vars

\* a group failed although a sibling fetch succeeded after the failure
C3_Witness ==
    /\ pc = "failed"
    /\ error > 1
    /\ \E i, j \in DOMAIN resolved :
          /\ i < j
          /\ resolved[i] = error
          /\ resolved[j] \in LastGroup
          /\ fetch[resolved[j]] = "ok"

RECURSIVE SumOfWidths(_)
SumOfWidths(gs) ==
    IF gs = <<>> THEN 0 ELSE Cardinality(Head(gs)) + SumOfWidths(Tail(gs))

\* C7: with R = totalPages - 1 > 0 the drain loop launches a first group of
\* R mod B pages (B if that is 0) and then groups of exactly B pages, R pages
\* in all; 350 questions with B = 2 give {2} then {3,4}, 250 give {2,3}.
C7_GroupWidths ==
    LET R == TotalPages - 1
        B == batch_size
    IN  /\ \A i \in DOMAIN groups :
              Cardinality(groups[i]) =
                  IF i = 1 /\ R % B # 0 THEN R % B ELSE B
        /\ pc = "done" /\ R > 0 => SumOfWidths(groups) = R
        /\ pc = "done" /\ total = 350 /\ B = 2 => groups = <<{2}, {3, 4}>>
        /\ pc = "done" /\ total = 250 /\ B = 2 => groups = <<{2, 3}>>

\* a short first group followed by a full one
C7_Witness ==
    /\ pc = "done"
    /\ Len(groups) >= 2
    /\ Cardinality(groups[1]) < batch_size
    /\ Cardinality(groups[2]) = batch_size

\* C8: pages above 1 are requested only after page 1 has resolved and been
\* merged; a group is launched only after every earlier fetch has succeeded and
\* been folded; top_n_questions changes only while no fetch is outstanding.
C8_FetchThenFold ==
    /\ [][(\E p \in PageIds : p > 1 /\ fetch[p] = "none" /\ fetch'[p] = "pending")
            => /\ fetch[1] = "ok"
               /\ \A q \in 1..page_number : fetch[q] = "ok" /\ q \in merged
               /\ coroutine_result = <<>>]_vars
    /\ [][(top_n_questions' # top_n_questions \/ merged' # merged)
            => Outstanding = {} /\ error = 0]_vars

\* a second group in flight, the first one folded
C8_Witness ==
    /\ pc = "await_group"
    /\ Len(groups) = 2
    /\ Cardinality(Outstanding) >= 2
    /\ groups[1] \subseteq merged

RECURSIVE FoldInPageOrder(_)
FoldInPageOrder(k) ==
    IF k <= 1 THEN FetchReturn(1).top_n
    ELSE get_top_n_questions_by_view_count(
             FoldInPageOrder(k - 1) \o FetchReturn(k).top_n, n)

\* C9: the result does not depend on the order in which the fetches of a group
\* complete: it is always the fold of the pages' results in page-number order.
C9_CompletionOrderIrrelevant == pc = "done" => result = FoldInPageOrder(TotalPages)

\* two pages of one group tie at the cut and the higher page resolved first
C9_Witness ==
    /\ pc = "done"
    /\ reordered
    /\ \E g \in DOMAIN groups : \E a, b \in Passing :
          /\ a[1] \in groups[g] /\ b[1] \in groups[g]
          /\ a[1] < b[1]
          /\ ViewOf(a) = ViewOf(b)
          /\ \E i, j \in DOMAIN resolved :
                i < j /\ resolved[i] = b[1] /\ resolved[j] = a[1]
          /\ \E i \in DOMAIN result : result[i].id = a
          /\ \A i \in DOMAIN result : result[i].id # b

\* C10: the session is open before the first fetch is issued, every run that
\* reaches done or failed has released it, and no fetch is issued afterwards.
C10_SessionScoped ==
    /\ []((\E p \in PageIds : fetch[p] # "none") => session # "none")
    /\ [](Terminated => session = "closed")
    /\ [][(\E p \in PageIds : fetch[p] = "none" /\ fetch'[p] = "pending")
            => session = "open" /\ session' = "open"]_vars
    /\ [][session = "closed" => session' = "closed"]_vars

\* a group failed with a sibling still in flight, and the session is closed
C10_Witness ==
    /\ pc = "failed"
    /\ session = "closed"
    /\ error > 1
    /\ Outstanding # {}

\* C11: merging G1 and then G2 into S gives what merging G1 ++ G2 into S gives:
\* merge(merge(S, G1, n), G2, n) = merge(S, G1 ++ G2, n) for all lists and n >= 0.
C11_MergeAssociative == Len(ret) = 3 => ret[2] = ret[3]

\* the first merge cut something off and a question of G2 made it to the end
C11_Witness ==
    /\ Len(ret) = 3
    /\ call.n >= 2
    /\ Len(call.S) + Len(call.G1) > call.n
    /\ call.S # <<>> /\ call.G1 # <<>>
    /\ \E i \in DOMAIN ret[3] : ret[3][i].id > Len(call.S) + Len(call.G1)
    /\ \E i \in DOMAIN ret[3] : ret[3][i].id <= Len(call.S) + Len(call.G1)

\* C12: merge(merge(X, Y, n), [], n) = merge(X, Y, n) for all lists and n >= 0,
\* and a merge leaves the list it was given as it was.
C12_MergeIdempotent ==
    /\ (Len(ret) >= 2 /\ call.G2 = <<>>) => ret[2] = ret[1]
    /\ Len(ret) = 1 => call.questions = call.S \o call.G1
    /\ Len(ret) = 2 => call.questions = ret[1] \o call.G2
    /\ Len(ret) = 3 => call.questions = call.S \o call.G1 \o call.G2

\* a merge that sorted and cut, merged again with the empty list
C12_Witness ==
    /\ Len(ret) = 2
    /\ call.G2 = <<>>
    /\ call.S # <<>> /\ call.G1 # <<>>
    /\ Len(ret[1]) >= 2
    /\ Len(ret[1]) < Len(call.S) + Len(call.G1)
    /\ ret[1] # SubSeq(call.S \o call.G1, 1, Len(ret[1]))

\* C13: a fetch that receives a non-successful response raises the error that
\* names the requested page and carries the body's message and code, or the
\* generic message and 500 where the body does not give them; it returns nothing.
C13_ErrorNamesPage ==
    (ret # <<>> /\ ~call.response.ok) =>
        LET body == IF call.response.decodes THEN call.response.body ELSE <<>>
        IN  /\ ret[1].kind = "raise"
            /\ ret[1].exception = "Exception"
            /\ ret[1].page_number = call.page_number
            /\ ret[1].error_message = Get(body, "error_message", DefaultErrorMessage)
            /\ ret[1].error_code = Get(body, "error_id", DefaultErrorCode)

\* the same for the non-successful responses whose body is a JSON object
C13_ErrorNamesPageOfJsonBody ==
    (ret # <<>> /\ ~call.response.ok /\ call.response.decodes) =>
        /\ ret[1].kind = "raise"
        /\ ret[1].exception = "Exception"
        /\ ret[1].page_number = call.page_number
        /\ ret[1].error_message = Get(call.response.body, "error_message", DefaultErrorMessage)
        /\ ret[1].error_code = Get(call.response.body, "error_id", DefaultErrorCode)

\* no non-successful response makes the fetch return questions
C13_NothingReturned == (ret # <<>> /\ ~call.response.ok) => ret[1].kind = "raise"

FailedInOrder == {i \in DOMAIN resolved : fetch[resolved[i]] = "failed"}
FirstFailed ==
    IF FailedInOrder = {} THEN 0
    ELSE resolved[CHOOSE i \in FailedInOrder : \A j \in FailedInOrder : i <= j]

\* C14: when several fetches of a group fail, the error handed to the caller is
\* that of the fetch that failed first in the order of resolution, whatever its
\* page number; it is the only one and is never replaced.
C14_FirstErrorPropagated ==
    /\ error = FirstFailed
    /\ pc = "failed" => error # 0

\* two fetches of a group failed, the higher page first
C14_Witness ==
    /\ pc = "failed"
    /\ \E p \in LastGroup : p < error /\ fetch[p] = "failed"

Requested == {p \in PageIds : fetch[p] # "none"}
Lowest(S) == CHOOSE x \in S : \A y \in S : x <= y
Highest(S) == CHOOSE x \in S : \A y \in S : x >= y

\* C15: pages are requested in increasing order from 1, every group taking the
\* next consecutive numbers; a successful run requests every page of
\* 1..max(1, totalPages) once and no other (page 1 alone when totalPages <= 1);
\* at the head of the drain loop page_number + remaining_page_count = totalPages.
C15_PagesInOrder ==
    /\ \A i \in DOMAIN groups :
          /\ groups[i] # {}
          /\ groups[i] = Lowest(groups[i])..Highest(groups[i])
          /\ Lowest(groups[i]) = 1 + (IF i = 1 THEN 1 ELSE Highest(groups[i - 1]))
    /\ Requested = {1} \cup UNION {groups[i] : i \in DOMAIN groups} \/ pc \in {"start", "entered"}
    /\ Requested \subseteq 1..Max(1, TotalPages)
    /\ Requested = 1..page_number
    /\ pc = "done" => Requested = 1..Max(1, TotalPages)
    /\ TotalPages <= 1 => groups = <<>>
    /\ pc = "drain" => page_number + remaining_page_count = TotalPages

\* a successful run over the most pages, in more than one group
C15_Witness ==
    /\ pc = "done"
    /\ Len(groups) >= 2
    /\ TotalPages >= 4
    /\ Requested = 1..TotalPages

InResult(id) == \E i \in DOMAIN result : result[i].id = id
RemoteOrder(a, b) == a[1] < b[1] \/ (a[1] = b[1] /\ a[2] < b[2])

\* C16: in the result, questions of equal view count stand in the order of page
\* number and then of position in the page, and where questions of equal view
\* count straddle the cut at N the earliest in that order are the ones kept.
C16_TiesInRemoteOrder ==
    pc = "done" =>
        /\ \A i, j \in DOMAIN result :
              (i < j /\ result[i].view_count = result[j].view_count)
                  => RemoteOrder(result[i].id, result[j].id)
        /\ \A a, b \in Passing :
              (ViewOf(a) = ViewOf(b) /\ InResult(b) /\ ~InResult(a))
                  => RemoteOrder(b, a)

\* a tie across two pages straddles the cut, another tie is inside the result
C16_Witness ==
    /\ pc = "done"
    /\ \E a, b \in Passing :
          /\ ViewOf(a) = ViewOf(b)
          /\ a[1] < b[1]
          /\ InResult(a) /\ ~InResult(b)
    /\ \E i, j \in DOMAIN result :
          i < j /\ result[i].view_count = result[j].view_count

\* C17: with batch width >= 1 and every issued fetch resolving, the scheduler
\* reaches done or failed; every drain iteration lowers remaining_page_count,
\* which is never negative while draining and is 0 at done after draining,
\* reached after ceil((totalPages - 1) / B) groups.
C17_Terminates ==
    /\ <>(pc \in {"done", "failed"})
    /\ [](groups # <<>> => remaining_page_count >= 0)
    /\ []((pc = "done" /\ groups # <<>>)
            => /\ remaining_page_count = 0
               /\ Len(groups) = Ceil(TotalPages - 1, batch_size))
    /\ [][groups' # groups => remaining_page_count' < remaining_page_count]_vars

\* a run that drained several groups down to 0
C17_Witness ==
    /\ pc = "done"
    /\ Len(groups) >= 2
    /\ batch_size >= 2
    /\ remaining_page_count = 0

\* C18: every drain iteration launches at least one and at most B fetches, and
\* no more than the pages that remain, whatever integer batch_size the entry
\* point is called with; no iteration launches nothing or raises
\* remaining_page_count.
C18_WidthWithinBatch ==
    /\ \A i \in DOMAIN groups :
          /\ Cardinality(groups[i]) >= 1
          /\ Cardinality(groups[i]) <= batch_size
          /\ Highest(groups[i]) <= TotalPages
    /\ 1 \in merged => remaining_page_count <= TotalPages - 1
    /\ pc = "failed" => SomeFetchFailed

\* the fetcher of the design: all unanswered questions of the page, in remote order
SurvivingItems(p) == remove_answered_questions(pages[p])

\* the running list of a scheduler that folds the uncut pages 1..k
RECURSIVE TopNOfUncutPages(_)
TopNOfUncutPages(k) ==
    IF k = 0 THEN <<>>
    ELSE get_top_n_questions_by_view_count(
             TopNOfUncutPages(k - 1) \o SurvivingItems(k), n)

\* C19: folding the pages as the code's fetch returns them, sorted and cut to
\* N, gives after every fold and at the end the same list, ties included, as
\* folding the pages' unanswered questions uncut and in remote order.
C19_CutPagesFoldAlike ==
    /\ merged = 1..Cardinality(merged)
    /\ top_n_questions = TopNOfUncutPages(Cardinality(merged))
    /\ pc = "done" => result = TopNOfUncutPages(Max(1, TotalPages))

\* a fold of a page that the fetch had cut and reordered
C19_Witness ==
    /\ pc \in {"drain", "done"}
    /\ \E p \in merged :
          /\ p > 1
          /\ Len(SurvivingItems(p)) > n
          /\ FetchReturn(p).top_n # SubSeq(SurvivingItems(p), 1, n)
          /\ \E i \in DOMAIN top_n_questions : top_n_questions[i].id[1] = p

\* C20: the pages to fetch are fixed by the response of page 1: what the pages
\* above 1 report as total changes neither remaining_page_count nor the widths
\* of the groups nor the pages requested.
C20_PageCountFromFirstPage ==
    /\ 1 \in merged => page_number + remaining_page_count = TotalPages
    /\ \A i \in DOMAIN groups :
          Cardinality(groups[i]) =
              IF i = 1 /\ (TotalPages - 1) % batch_size # 0
              THEN (TotalPages - 1) % batch_size ELSE batch_size
    /\ Requested \subseteq 1..Max(1, TotalPages)
    /\ pc = "done" => Requested = 1..Max(1, TotalPages)

\* a page of the first group reported more pages than page 1 did
C20_Witness ==
    /\ pc = "done"
    /\ Len(groups) >= 2
    /\ \E p \in groups[1] : reported_total[p] > total
    /\ \E p \in groups[2] : reported_total[p] < total
====
